---- MODULE Spec2Model ----
(***************************************************************************)
(* boost::histogram::detail::static_vector<T, N>                           *)
(* (include/boost/histogram/detail/static_vector.hpp).                     *)
(*                                                                         *)
(* Two objects, a and b, of the same instantiation static_vector<T, N>.    *)
(* Each has the two members of the class: size_ and data_[N].  A driver    *)
(* (the caller) constructs the objects and calls their member functions,   *)
(* one call at a time (the class is not synchronized, spec section 5).     *)
(* The constructors and swap are modelled statement by statement, the      *)
(* other member functions are one step each.                               *)
(***************************************************************************)
EXTENDS Integers, Sequences, FiniteSets, TLC

\* ------------------------------------------------------------------ bounds
N == 2          \* the template parameter N: capacity of data_
MaxVal == 1     \* element type T is modelled as 0..MaxVal

Objs == {"a", "b"}
Values == 0 .. MaxVal
Slots == 0 .. (N - 1)
\* sizes a caller may request from a constructor: the valid ones and one too big
Reqs == 0 .. (N + 1)

Storage == [Slots -> Values]

RECURSIVE SeqsOfLen(_)
SeqsOfLen(k) ==
  IF k = 0 THEN {<<>>}
  ELSE {Append(q, v) : q \in SeqsOfLen(k - 1), v \in Values}

\* initializer lists: all of length <= N, and of length N + 1 the constant ones
\* (an oversized list is never copied, so its content cannot matter)
Lists ==
  UNION {SeqsOfLen(k) : k \in 0 .. N}
    \cup {[j \in 1 .. (N + 1) |-> v] : v \in Values}

Max(p, q) == IF p >= q THEN p ELSE q
Min(p, q) == IF p <= q THEN p ELSE q

VARIABLES
  NDEBUG,   \* build configuration: TRUE when assert() is compiled out
  size_,    \* size_[x]: the member size_ of object x
  data_,    \* data_[x][i]: the member data_[i] of object x
  pc,       \* position of the caller / of the member function in progress
  call,     \* the call in progress, or the last completed one
  result,   \* what the last completed call returned
  old,      \* history: both objects as they were when the last swap was entered
  prev,     \* history: both objects before the swap preceding the last swap
  writes    \* history: number of element slots written by the call so far

vars == <<NDEBUG, size_, data_, pc, call, result, old, prev, writes>>

\* ----------------------------------------------------------- bookkeeping
NoCall ==
  [op |-> "none", self |-> "a", other |-> "a", via |-> "none", req |-> 0,
   value |-> 0, items |-> <<>>, pos |-> 0, i |-> 0, s |-> 0]

NoResult ==
  [val |-> 0, eq |-> FALSE, ne |-> FALSE, size |-> 0, max_size |-> 0,
   empty |-> FALSE, error |-> "none"]

ZeroSize == [x \in Objs |-> 0]
ZeroData == [x \in Objs |-> [i \in Slots |-> 0]]
NoSnap == [set |-> FALSE, size_ |-> ZeroSize, data_ |-> ZeroData]
NoPrev == [set |-> FALSE, self |-> "a", other |-> "a",
           size_ |-> ZeroSize, data_ |-> ZeroData]

\* ------------------------------------------------------- member functions
\* (variant: returns the current length)
max_size_length(x) == size_[x]

\* constexpr size_type max_size() const noexcept { return N; }
max_size(x) == N

\* size_type size() const noexcept { return size_; }
size(sz, x) == sz[x]

\* bool empty() const noexcept { return size_ == 0; }
empty(sz, x) == sz[x] = 0

\* reference operator[](size_type pos) noexcept { return data_[pos]; }
operator_index(d, x, pos) == d[x][pos]

\* (variant: bound off by one)
assert_size_off(s) == s <= N + 1

\* assert(size_ <= N) in the sized constructor
assert_size(s) == s <= N

\* (variant: stops one slot early)
fill_short(d, sz, x, value) ==
  [d EXCEPT ![x] = [i \in Slots |-> IF i + 1 < sz[x] THEN value ELSE @[i]]]

\* std::fill(begin(), end(), value): slots [0, size_) of x become value
fill(d, sz, x, value) ==
  [d EXCEPT ![x] = [i \in Slots |-> IF i < sz[x] THEN value ELSE @[i]]]

\* (variant: copies the items in reverse order)
std_copy_reversed(d, x, il) ==
  [d EXCEPT ![x] =
     [i \in Slots |-> IF i < Len(il) THEN il[Len(il) - i] ELSE @[i]]]

\* std::copy(il.begin(), il.end(), data_): item k of il goes to slot k
std_copy(d, x, il) ==
  [d EXCEPT ![x] = [i \in Slots |-> IF i < Len(il) THEN il[i + 1] ELSE @[i]]]


\* std::equal(first1, last1, first2, last2) on pointers: the two distances are
\* compared first, then the elements pairwise in index order
RECURSIVE equal_loop(_, _, _, _, _)
equal_loop(d, x, y, i, n) ==
  IF i = n THEN TRUE
  ELSE IF d[x][i] # d[y][i] THEN FALSE
  ELSE equal_loop(d, x, y, i + 1, n)

\* (variant: the three-iterator std::equal, which does not compare the lengths)
std_equal_3(d, sz, x, y) == equal_loop(d, x, y, 0, Min(sz[x], N))

std_equal(d, sz, x, y) ==
  IF sz[x] # sz[y] THEN FALSE ELSE equal_loop(d, x, y, 0, sz[x])

\* bool operator==(a, b): std::equal(a.begin(), a.end(), b.begin(), b.end())
operator_eq(d, sz, x, y) == std_equal(d, sz, x, y)

\* bool operator!=(a, b): !(a == b)
operator_ne(d, sz, x, y) == ~operator_eq(d, sz, x, y)

\* swap, line by line
\* (variants: only the common range; only the range of *this)
swap_bound_min(sz, x, y) == Min(size(sz, x), size(sz, y))
swap_bound_self(sz, x, y) == size(sz, x)

\* const size_type s = (std::max)(size(), other.size());
swap_bound(sz, x, y) == Max(size(sz, x), size(sz, y))

\* (variant: *i = *j)
swap_elem_assign(d, x, y, i) == [d EXCEPT ![x][i] = d[y][i]]

\* swap(*i, *j): slot i of x and slot i of y exchange their contents
swap_elem(d, x, y, i) == [d EXCEPT ![x][i] = d[y][i], ![y][i] = d[x][i]]

\* (variant: size_ = other.size_)
swap_size_assign(sz, x, y) == [sz EXCEPT ![x] = sz[y]]

\* swap(size_, other.size_)
swap_size(sz, x, y) == [sz EXCEPT ![x] = sz[y], ![y] = sz[x]]

\* the for loop of swap, from index i to the bound s
RECURSIVE swap_loop(_, _, _, _, _)
swap_loop(d, x, y, i, s) ==
  IF i = s THEN d ELSE swap_loop(swap_elem(d, x, y, i), x, y, i + 1, s)

\* x.swap(y) as a whole: the two objects after the call
swap(d, sz, x, y) ==
  [size_ |-> swap_size(sz, x, y),
   data_ |-> swap_loop(d, x, y, 0, swap_bound(sz, x, y))]

\* ------------------------------------------------------------------- Init
\* Both objects default-constructed: size_ = 0 (the member initializer), data_
\* not initialized, so it holds whatever the storage held.
Init ==
  /\ NDEBUG \in BOOLEAN
  /\ size_ = [x \in Objs |-> 0]
  /\ data_ \in [Objs -> Storage]
  /\ pc = "idle"
  /\ call = NoCall
  /\ result = NoResult
  /\ old = NoSnap
  /\ prev = NoPrev
  /\ writes = 0

NewCall(op, x) == [NoCall EXCEPT !.op = op, !.self = x]

NoHistory == old' = NoSnap /\ prev' = NoPrev

\* ----------------------------------------------------------- constructors
\* An object is constructed in the storage of a or b.  No constructor
\* initializes data_ (element_type data_[N] has no initializer), so the slots
\* keep the bytes the storage held: arbitrary ones at Init, later those of the
\* object that was there before.
\* static_vector() = default;
DefaultCtor(x) ==
  /\ pc = "idle"
  /\ size_' = [size_ EXCEPT ![x] = 0]
  /\ pc' = "returned"
  /\ call' = NewCall("ctor_default", x)
  /\ result' = NoResult
  /\ writes' = 0
  /\ NoHistory
  /\ UNCHANGED <<NDEBUG, data_>>

\* explicit static_vector(std::size_t s) noexcept : size_(s) { assert(size_ <= N); }
\* `then` is where the caller or the delegating constructor goes on when the
\* assertion passes or is compiled out.
sized(x, s, then) ==
  /\ size_' = [size_ EXCEPT ![x] = s]
  /\ pc' = IF ~NDEBUG /\ ~assert_size(s) THEN "aborted" ELSE then
  /\ result' = NoResult
  /\ writes' = 0
  /\ NoHistory
  /\ UNCHANGED <<NDEBUG, data_>>

SizedCtor(x, s) ==
  /\ pc = "idle"
  /\ call' = [NewCall("ctor_sized", x) EXCEPT !.req = s]
  /\ sized(x, s, IF s > N THEN "invalid" ELSE "returned")

\* static_vector(std::size_t s, const T& value) : static_vector(s) { fill(value); }
FillCtor(x, s, value) ==
  /\ pc = "idle"
  /\ call' = [NewCall("ctor_fill", x) EXCEPT !.req = s, !.value = value]
  /\ sized(x, s, "ctor_body")

\* static_vector(std::initializer_list<T> il) : static_vector(il.size())
\*   { std::copy(il.begin(), il.end(), data_); }
ListCtor(x, il) ==
  /\ pc = "idle"
  /\ call' = [NewCall("ctor_list", x) EXCEPT !.req = Len(il), !.items = il]
  /\ sized(x, Len(il), "ctor_body")

\* The body of the delegating constructor.  With size_ > N (only possible when
\* the assertion is compiled out) it writes past data_: undefined behaviour,
\* not followed further.
CtorBody ==
  /\ pc = "ctor_body"
  /\ data_' = IF call.op = "ctor_fill"
              THEN fill(data_, size_, call.self, call.value)
              ELSE std_copy(data_, call.self, call.items)
  /\ writes' = writes + size_[call.self]
  /\ pc' = IF size_[call.self] > N THEN "ub" ELSE "returned"
  /\ UNCHANGED <<NDEBUG, size_, call, result, old, prev>>

\* -------------------------------------------------------------- accessors
\* reference at(size_type pos) noexcept {
\*   if (pos >= size()) BOOST_THROW_EXCEPTION(std::out_of_range{...});
\*   return data_[pos]; }
\* The function is noexcept: an exception leaving it calls std::terminate.
At(x, pos) ==
  /\ pc = "idle"
  /\ call' = [NewCall("at", x) EXCEPT !.pos = pos]
  /\ IF pos >= size(size_, x)
     THEN /\ pc' = "terminated"
          /\ result' = [NoResult EXCEPT !.error = "out_of_range"]
     ELSE /\ pc' = "returned"
          /\ result' = [NoResult EXCEPT !.val = data_[x][pos]]
  /\ writes' = 0
  /\ NoHistory
  /\ UNCHANGED <<NDEBUG, size_, data_>>

\* v[pos] = value through reference operator[](pos); pos is any slot of data_
IndexWrite(x, pos, value) ==
  /\ pc = "idle"
  /\ data_' = [data_ EXCEPT ![x][pos] = value]
  /\ call' = [NewCall("index_write", x) EXCEPT !.pos = pos, !.value = value]
  /\ result' = NoResult
  /\ pc' = "returned"
  /\ writes' = 1
  /\ NoHistory
  /\ UNCHANGED <<NDEBUG, size_>>

\* size(), max_size() and empty() of x
Query(x) ==
  /\ pc = "idle"
  /\ call' = NewCall("query", x)
  /\ result' = [NoResult EXCEPT !.size = size(size_, x),
                                !.max_size = max_size(x),
                                !.empty = empty(size_, x)]
  /\ pc' = "returned"
  /\ writes' = 0
  /\ NoHistory
  /\ UNCHANGED <<NDEBUG, size_, data_>>

\* x == y and x != y
Compare(x, y) ==
  /\ pc = "idle"
  /\ call' = [NewCall("compare", x) EXCEPT !.other = y]
  /\ result' = [NoResult EXCEPT !.eq = operator_eq(data_, size_, x, y),
                                !.ne = operator_ne(data_, size_, x, y)]
  /\ pc' = "returned"
  /\ writes' = 0
  /\ NoHistory
  /\ UNCHANGED <<NDEBUG, size_, data_>>

\* --------------------------------------------------------------- mutation
\* void fill(const_reference value) { std::fill(begin(), end(), value); }
Fill(x, value) ==
  /\ pc = "idle"
  /\ data_' = fill(data_, size_, x, value)
  /\ call' = [NewCall("fill", x) EXCEPT !.value = value]
  /\ result' = NoResult
  /\ pc' = "returned"
  /\ writes' = size_[x]
  /\ NoHistory
  /\ UNCHANGED <<NDEBUG, size_>>

\* Entry of x.swap(y): s is computed and the loop starts at begin().
\* via is "member" for a direct call and "std" for std::swap(x, y).
swap_enter(x, y, via) ==
  /\ pc = "idle" \/ (pc = "returned" /\ call.op = "swap")
  /\ call' = [NewCall("swap", x) EXCEPT !.other = y, !.via = via,
                                        !.s = swap_bound(size_, x, y), !.i = 0]
  /\ old' = [set |-> TRUE, size_ |-> size_, data_ |-> data_]
  /\ prev' = IF call.op = "swap" /\ {call.self, call.other} = {x, y}
             THEN [set |-> TRUE, self |-> call.self, other |-> call.other,
                   size_ |-> old.size_, data_ |-> old.data_]
             ELSE NoPrev
  /\ pc' = "swap_loop"
  /\ result' = NoResult
  /\ writes' = 0
  /\ UNCHANGED <<NDEBUG, size_, data_>>

\* void swap(static_vector& other)
Swap(x, y) == swap_enter(x, y, "member")

\* namespace std { void swap(static_vector& a, static_vector& b) { a.swap(b); } }
StdSwap(x, y) == swap_enter(x, y, "std")

\* one iteration of the for loop: swap(*i, *j); ++i, ++j
SwapStep ==
  /\ pc = "swap_loop"
  /\ call.i # call.s
  /\ data_' = swap_elem(data_, call.self, call.other, call.i)
  /\ call' = [call EXCEPT !.i = @ + 1]
  /\ writes' = writes + 2
  /\ UNCHANGED <<NDEBUG, size_, pc, result, old, prev>>

\* the loop has ended (i == end): swap(size_, other.size_) and return
SwapExit ==
  /\ pc = "swap_loop"
  /\ call.i = call.s
  /\ size_' = swap_size(size_, call.self, call.other)
  /\ pc' = "returned"
  /\ UNCHANGED <<NDEBUG, data_, call, result, old, prev, writes>>

\* The caller goes on after a call has returned and drops what it returned.
\* (Only a swap may follow a swap directly: prev then keeps the first one.)
Return ==
  /\ pc = "returned"
  /\ pc' = "idle"
  /\ call' = NoCall
  /\ result' = NoResult
  /\ writes' = 0
  /\ NoHistory
  /\ UNCHANGED <<NDEBUG, size_, data_>>

Next ==
  \/ \E x \in Objs : DefaultCtor(x)
  \/ \E x \in Objs, s \in Reqs : SizedCtor(x, s)
  \/ \E x \in Objs, s \in Reqs, v \in Values : FillCtor(x, s, v)
  \/ \E x \in Objs, il \in Lists : ListCtor(x, il)
  \/ CtorBody
  \/ \E x \in Objs, pos \in 0 .. N : At(x, pos)
  \/ \E x \in Objs, pos \in Slots, v \in Values : IndexWrite(x, pos, v)
  \/ \E x \in Objs : Query(x)
  \/ \E x, y \in Objs : Compare(x, y)
  \/ \E x \in Objs, v \in Values : Fill(x, v)
  \/ \E x, y \in Objs : Swap(x, y)
  \/ \E x, y \in Objs : StdSwap(x, y)
  \/ SwapStep
  \/ SwapExit
  \/ Return

Spec == Init /\ [][Next]_vars

TypeOK ==
  /\ NDEBUG \in BOOLEAN
  /\ size_ \in [Objs -> Reqs]
  /\ data_ \in [Objs -> Storage]
  /\ pc \in {"idle", "returned", "ctor_body", "swap_loop", "aborted", "terminated",
             "invalid", "ub"}

\* ----------------------------------------------------------------- claims
Returned(op) == pc = "returned" /\ call.op = op

Ctors == {"ctor_default", "ctor_sized", "ctor_fill", "ctor_list"}

\* the construction of call.self asked for more than N elements
OversizedCtor == call.op \in Ctors /\ call.req > N

\* x is an object made by a valid construction
ValidlyConstructed(x) == ~(OversizedCtor /\ call.self = x)

\* slot i of self and of other hold what the other object held at swap entry
Exchanged(x, y, i) ==
  /\ data_[x][i] = old.data_[y][i]
  /\ data_[y][i] = old.data_[x][i]

\* slot i of self and of other hold what they held at swap entry
Untouched(x, y, i) ==
  /\ data_[x][i] = old.data_[x][i]
  /\ data_[y][i] = old.data_[y][i]

\* C1: every validly constructed object has size() <= max_size() in every
\* state, whatever fill, indexed writes and swaps were done, and max_size()
\* returns N whatever the length and the contents are.
C1_SizeWithinCapacity ==
  /\ \A x \in Objs : ValidlyConstructed(x) => size(size_, x) <= max_size(x)
  /\ Returned("query") =>
       /\ result.max_size = N
       /\ result.size = size_[call.self]
       /\ result.size <= result.max_size

\* a query of a full object that differs from the other one in length
C1_Witness ==
  /\ Returned("query")
  /\ result.size = N
  /\ \E y \in Objs : size_[y] < N /\ size_[y] > 0

\* C2: at(pos) returns element pos, the value of operator[](pos), exactly when
\* pos < size(); for pos >= size() the caller gets an out-of-range error it can
\* catch and continue from, and the object is unchanged.
C2_AtReportsOutOfRange ==
  call.op = "at" =>
    IF call.pos < size(size_, call.self)
    THEN /\ pc = "returned"
         /\ result.error = "none"
         /\ result.val = operator_index(data_, call.self, call.pos)
    ELSE /\ pc = "returned"
         /\ result.error = "out_of_range"

\* C3: after x.swap(y), x has the length y had and y the length x had.
C3_SwapExchangesSizes ==
  Returned("swap") =>
    /\ size(size_, call.self) = old.size_[call.other]
    /\ size(size_, call.other) = old.size_[call.self]

\* a swap of two objects of different lengths, one of them empty
C3_Witness ==
  /\ Returned("swap")
  /\ call.self # call.other
  /\ old.size_[call.self] = 0
  /\ old.size_[call.other] = N
  /\ size_[call.self] = N

\* C4: after x.swap(y), x[i] is the old y[i] for every i below x's new size,
\* and y[i] is the old x[i] for every i below y's new size.
C4_SwapExchangesElements ==
  Returned("swap") =>
    /\ \A i \in Slots : i < size(size_, call.self) =>
         operator_index(data_, call.self, i) = old.data_[call.other][i]
    /\ \A i \in Slots : i < size(size_, call.other) =>
         operator_index(data_, call.other, i) = old.data_[call.self][i]

\* a swap of two objects of different nonzero lengths whose elements differ
C4_Witness ==
  /\ Returned("swap")
  /\ call.self # call.other
  /\ old.size_[call.self] > old.size_[call.other]
  /\ old.size_[call.other] > 0
  /\ \A i \in Slots : i < old.size_[call.self] =>
       old.data_[call.self][i] # old.data_[call.other][i]

\* C5: fill(v) leaves size() as it was and makes every element below size()
\* equal to v; with size() = 0 it changes nothing.
C5_Fill ==
  [][Returned("fill")' =>
       /\ size_' = size_
       /\ \A i \in Slots : i < size_'[call'.self] =>
            data_'[call'.self][i] = call'.value
       /\ size_[call'.self] = 0 => data_' = data_]_vars

\* a fill of a non-empty object that has a slot beyond its length holding
\* another value than the one filled in
C5_Witness ==
  /\ Returned("fill")
  /\ size_[call.self] > 0
  /\ size_[call.self] < N
  /\ data_[call.self][N - 1] # call.value

\* C6: x == y is true exactly when the sizes are equal and the elements below
\* the size are pairwise equal (slots beyond the size play no part); x == x is
\* true, x == y is y == x, and x != y is the negation of x == y.
C6_Equality ==
  Returned("compare") =>
    LET x == call.self
        y == call.other
    IN /\ result.eq <=>
            /\ size_[x] = size_[y]
            /\ \A i \in Slots : i < size_[x] => data_[x][i] = data_[y][i]
       /\ x = y => result.eq
       /\ result.eq <=> operator_eq(data_, size_, y, x)
       /\ result.ne <=> ~result.eq

\* two different objects compare equal although slots beyond their length differ
C6_Witness ==
  /\ Returned("compare")
  /\ call.self # call.other
  /\ result.eq
  /\ size_[call.self] > 0
  /\ size_[call.self] < N
  /\ data_[call.self][N - 1] # data_[call.other][N - 1]

\* C7: construction from a list of k <= N items gives size() = k and element i
\* equal to item i; construction with (s, value), s <= N, gives size() = s and
\* every element equal to value; default construction gives an empty object.
C7_Construction ==
  LET x == call.self
  IN /\ (Returned("ctor_list") /\ Len(call.items) <= N) =>
          /\ size(size_, x) = Len(call.items)
          /\ \A i \in Slots : i < Len(call.items) =>
               operator_index(data_, x, i) = call.items[i + 1]
     /\ (Returned("ctor_fill") /\ call.req <= N) =>
          /\ size(size_, x) = call.req
          /\ \A i \in Slots : i < call.req =>
               operator_index(data_, x, i) = call.value
     /\ Returned("ctor_default") =>
          /\ size(size_, x) = 0
          /\ empty(size_, x)

\* a list of N items, not all the same, has been made into an object
C7_Witness ==
  /\ Returned("ctor_list")
  /\ Len(call.items) = N
  /\ call.items[1] # call.items[N]

\* C8: with assertions enabled, a construction asking for more than N elements
\* stops at the failed assertion before any slot is written, and no object has
\* a length above N except the one whose construction was stopped.
C8_OversizedConstructionAsserts ==
  ~NDEBUG =>
    /\ OversizedCtor => pc = "aborted" /\ writes = 0
    /\ \A x \in Objs :
         size_[x] > N => pc = "aborted" /\ OversizedCtor /\ call.self = x

\* a sized-with-value construction of N + 1 elements has hit the assertion
C8_Witness ==
  /\ ~NDEBUG
  /\ pc = "aborted"
  /\ call.op = "ctor_fill"
  /\ call.req = N + 1

\* C9: swap exchanges the slots pairwise in index order for exactly the indices
\* below max of the two lengths at entry, then exchanges the lengths; slots at
\* that maximum or above are not touched, so the now-shorter object holds the
\* other one's old slots in [new length, max).
C9_SwapFrame ==
  LET x == call.self
      y == call.other
      m == Max(old.size_[x], old.size_[y])
  IN /\ pc = "swap_loop" =>
          /\ call.s = m
          /\ call.i <= m
          /\ size_ = old.size_
          /\ \A i \in Slots :
               IF i < call.i THEN Exchanged(x, y, i) ELSE Untouched(x, y, i)
     /\ Returned("swap") =>
          /\ size_[x] = old.size_[y] /\ size_[y] = old.size_[x]
          /\ \A i \in Slots :
               IF i < m THEN Exchanged(x, y, i) ELSE Untouched(x, y, i)

\* a swap of a longer with a shorter object; the longer was not full, and the
\* slots beyond the shorter one's length differed from the longer one's
C9_Witness ==
  /\ Returned("swap")
  /\ call.self # call.other
  /\ old.size_[call.self] < N
  /\ old.size_[call.other] < old.size_[call.self]
  /\ \A i \in Slots : old.data_[call.self][i] # old.data_[call.other][i]

\* C10: x.swap(y) twice restores the lengths and all slots of both objects;
\* x.swap(y) and y.swap(x) end in the same state; x.swap(x) changes nothing;
\* std::swap(x, y) ends in the state x.swap(y) ends in.
C10_SwapInvolution ==
  Returned("swap") =>
    LET x == call.self
        y == call.other
        now == [size_ |-> size_, data_ |-> data_]
    IN /\ prev.set => (size_ = prev.size_ /\ data_ = prev.data_)
       /\ now = swap(old.data_, old.size_, y, x)
       /\ x = y => (size_ = old.size_ /\ data_ = old.data_)
       /\ call.via = "std" => now = swap(old.data_, old.size_, x, y)

\* the second of two swaps of the same two objects, which differ in length
\* and in every slot
C10_Witness ==
  /\ Returned("swap")
  /\ prev.set
  /\ call.self # call.other
  /\ prev.self = call.self
  /\ size_[call.self] # size_[call.other]
  /\ \A i \in Slots : data_[call.self][i] # data_[call.other][i]

====
